---- MODULE Spec2Model ----
(* A model of the crud-controller action engine: the attribute resolver,    *)
(* the scope and predicate composer, the five resource actions, the loader  *)
(* step and the collection shaper of src/src/crud_controller.ts.            *)
EXTENDS FiniteSets, Integers, Sequences, TLC

VARIABLES db, ctx, params, payload, res, shape

vars == <<db, ctx, params, payload, res, shape>>

(***************************************************************************)
(* Names.  Model names, field names and store keys are JavaScript strings; *)
(* they are sequences of characters here so that slice(0, -1) is computed. *)
(***************************************************************************)
things == <<"t", "h", "i", "n", "g", "s">>
thing_id == <<"t", "h", "i", "n", "g", "_", "i", "d">>
user_id == <<"u", "s", "e", "r", "_", "i", "d">>
name == <<"n", "a", "m", "e">>
active == <<"a", "c", "t", "i", "v", "e">>
extra == <<"e", "x", "t", "r", "a">>
item == <<"i", "t", "e", "m">>
EmptyString == <<>>

(***************************************************************************)
(* JavaScript values.  type is the result of typeof; then is the type of   *)
(* the value a thenable resolves to ("none" when the value has no `then`); *)
(* obj holds the own properties of a plain object.                         *)
(***************************************************************************)
NoProps == <<>>
JsVal(t, v) == [type |-> t, val |-> v, then |-> "none", obj |-> NoProps]
JsUndefined == JsVal("undefined", "undefined")
JsNull == JsVal("object", "null")
JsTrue == JsVal("boolean", "true")
JsFalse == JsVal("boolean", "false")
JsStr(s) == JsVal("string", s)
JsNum(n) == JsVal("number", n)
JsObject(props) == [type |-> "object", val |-> "object", then |-> "none", obj |-> props]
JsPromise(v) == [type |-> "object", val |-> v.val, then |-> v.type, obj |-> v.obj]
Await(p) == [type |-> p.then, val |-> p.val, then |-> "none", obj |-> p.obj]
SqlDefault == JsVal("object", "DEFAULT")

IsNull(v) == v.type = "object" /\ v.val = "null" /\ v.then = "none"
IsUndefined(v) == v.type = "undefined"

\* obj[key] of JavaScript: undefined when the property is absent
Prop(props, key) == IF key \in DOMAIN props THEN props[key] ELSE JsUndefined

\* obj[key] = value
SetProp(props, key, value) ==
    [k \in (DOMAIN props) \cup {key} |-> IF k = key THEN value ELSE props[k]]

(***************************************************************************)
(* The model schema handed to the controller (the `things` entry of the    *)
(* example application, with a boolean column added so that payloads can   *)
(* carry booleans).                                                        *)
(***************************************************************************)
databaseSchema ==
    (things :> ((thing_id :> "string") @@ (user_id :> "string")
                @@ (name :> "string") @@ (active :> "boolean")))

Columns(model) == DOMAIN databaseSchema[model]

ZodAccepts(ztype, v) == v.then = "none" /\ v.type = ztype

\* models[model].pick(schemaKeys).parse(payload) with passthrough of unknown keys
SchemaParsePassthrough(model, schemaKeys, body) ==
    LET shapeKeys == schemaKeys \cap Columns(model)
        isObject == body.type = "object" /\ body.val = "object" /\ body.then = "none"
    IN  IF isObject /\ \A k \in shapeKeys :
                           /\ k \in DOMAIN body.obj
                           /\ ZodAccepts(databaseSchema[model][k], body.obj[k])
        THEN [ok |-> TRUE, attributes |-> body.obj]
        ELSE [ok |-> FALSE, attributes |-> NoProps]

\* models[model].pick(schemaKeys).parse(payload): zod objects strip unknown keys
SchemaParse(model, schemaKeys, body) ==
    LET shapeKeys == schemaKeys \cap Columns(model)
        isObject == body.type = "object" /\ body.val = "object" /\ body.then = "none"
    IN  IF isObject /\ \A k \in shapeKeys :
                           /\ k \in DOMAIN body.obj
                           /\ ZodAccepts(databaseSchema[model][k], body.obj[k])
        THEN [ok |-> TRUE, attributes |-> [k \in shapeKeys |-> body.obj[k]]]
        ELSE [ok |-> FALSE, attributes |-> NoProps]

(***************************************************************************)
(* Attribute sources.  A picker is the sequence of its entries in          *)
(* declaration order; a custom resolver function is described by what it   *)
(* does when called: throw, return ret, or return a promise of ret.        *)
(***************************************************************************)
NoFn == [ret |-> JsUndefined, async |-> FALSE, throws |-> FALSE]
Tag(key, t) == [key |-> key, tag |-> t, fn |-> NoFn]
Fn(key, ret, async) ==
    [key |-> key, tag |-> "function", fn |-> [ret |-> ret, async |-> async, throws |-> FALSE]]
ThrowingFn(key) ==
    [key |-> key, tag |-> "function", fn |-> [ret |-> JsUndefined, async |-> FALSE, throws |-> TRUE]]

PickerKeys(picker) == {picker[i].key : i \in 1..Len(picker)}
SourceOf(picker, key) == picker[CHOOSE i \in 1..Len(picker) : picker[i].key = key]

\* adapter.get(c, key)
AdapterGet(store, key) == Prop(store, key)

\* event of the invocation log
Ev(e, key) == [ev |-> e, key |-> key]

\* the boolean coercion at the end of each iteration, left out
CoerceNothing(v) == v

\* if (typeof attributes[key] === "boolean") attributes[key] = attributes[key] ? "1" : "0"
Coerce(v) ==
    IF v.type = "boolean" /\ v.then = "none"
    THEN (IF v.val = "true" THEN JsStr("1") ELSE JsStr("0"))
    ELSE v

\* if (typeof fnValue === "object" && "then" in fnValue) await it, else store it;
\* the `in` operator throws a TypeError on null
FnStore(fnValue) ==
    IF fnValue.type = "object"
    THEN IF IsNull(fnValue)
         THEN [status |-> "TypeError", value |-> JsUndefined]
         ELSE IF fnValue.then # "none"
              THEN [status |-> "ok", value |-> Await(fnValue)]
              ELSE [status |-> "ok", value |-> fnValue]
    ELSE [status |-> "ok", value |-> fnValue]

\* one iteration of the loop over the picker: the switch on the source tag
PickOne(entry, store, routeParams, args, rnd) ==
    LET key == entry.key
        Assign(v) == [status |-> "ok", assign |-> TRUE, value |-> v, calls |-> <<>>]
    IN  CASE entry.tag = "get" -> Assign(AdapterGet(store, key))
          [] entry.tag = "arg" ->
                IF IsUndefined(args)
                THEN [status |-> "TypeError", assign |-> FALSE, value |-> JsUndefined,
                      calls |-> <<>>]
                ELSE Assign(Prop(args.obj, key))
          [] entry.tag = "param" -> Assign(Prop(routeParams, key))
          [] entry.tag = "uuid" -> Assign(JsStr(rnd.uuid))
          [] entry.tag = "inserted_at" -> Assign(JsStr(rnd.now))
          [] entry.tag = "updated_at" -> Assign(JsStr(rnd.now))
          [] entry.tag = "null" -> Assign(JsNull)
          [] entry.tag = "default" -> Assign(SqlDefault)
          [] entry.tag = "function" ->
                IF entry.fn.throws
                THEN [status |-> "ResolverError", assign |-> FALSE, value |-> JsUndefined,
                      calls |-> <<Ev("resolver", key)>>]
                ELSE LET fnValue == IF entry.fn.async THEN JsPromise(entry.fn.ret)
                                    ELSE entry.fn.ret
                         stored == FnStore(fnValue)
                     IN  [status |-> stored.status, assign |-> stored.status = "ok",
                          value |-> stored.value, calls |-> <<Ev("resolver", key)>>]
          [] OTHER -> [status |-> "ok", assign |-> FALSE, value |-> JsUndefined,
                       calls |-> <<>>]

RECURSIVE PickLoop(_, _, _, _, _, _, _)
PickLoop(picker, i, store, routeParams, args, rnd, acc) ==
    IF i > Len(picker) \/ acc.status # "ok" THEN acc
    ELSE LET key == picker[i].key
             one == PickOne(picker[i], store, routeParams, args, rnd)
             assigned == IF one.assign THEN SetProp(acc.attributes, key, one.value)
                         ELSE acc.attributes
             coerced == IF key \in DOMAIN assigned
                        THEN SetProp(assigned, key, Coerce(assigned[key]))
                        ELSE assigned
         IN  PickLoop(picker, i + 1, store, routeParams, args, rnd,
                      [status |-> one.status,
                       attributes |-> IF one.status = "ok" THEN coerced ELSE acc.attributes,
                       calls |-> acc.calls \o one.calls])

\* the function returned by createAttributesPickerFunction(models, model, adapter, picker)
createAttributesPickerFunction(model, picker, store, routeParams, body, args, rnd) ==
    LET schemaKeys == {picker[i].key : i \in {j \in 1..Len(picker) : picker[j].tag = "payload"}}
        parsed == SchemaParse(model, schemaKeys, body)
    IN  IF ~parsed.ok
        THEN [status |-> "ValidationError", attributes |-> NoProps, calls |-> <<Ev("parse", <<>>)>>]
        ELSE PickLoop(picker, 1, store, routeParams, args, rnd,
                      [status |-> "ok", attributes |-> parsed.attributes,
                       calls |-> <<Ev("parse", <<>>)>>])

(***************************************************************************)
(* The store: one table per model, a sequence of rows in storage order.    *)
(* A query is the table it addresses and the filters applied so far.       *)
(***************************************************************************)
Filter(lhs, op, rhs) == [lhs |-> lhs, op |-> op, rhs |-> rhs]
NoQuery == [kind |-> "none", table |-> EmptyString, filters |-> <<>>]
SelectFrom(model) == [kind |-> "select", table |-> model, filters |-> <<>>]
UpdateTable(model) == [kind |-> "update", table |-> model, filters |-> <<>>]
DeleteFrom(model) == [kind |-> "delete", table |-> model, filters |-> <<>>]

\* query.where(lhs, op, rhs)
Where(query, lhs, op, rhs) ==
    [query EXCEPT !.filters = Append(@, Filter(lhs, op, rhs))]

Matches(row, f) ==
    IF f.op = "=" THEN row[f.lhs] = f.rhs ELSE row[f.lhs] # f.rhs

MatchesAll(row, query) == \A i \in 1..Len(query.filters) : Matches(row, query.filters[i])

\* the rows a query addresses, in storage order
Execute(database, query) == SelectSeq(database, LAMBDA row : MatchesAll(row, query))

\* executeTakeFirst of a select or of a statement with returningAll
TakeFirst(rows) == IF Len(rows) = 0 THEN JsUndefined ELSE JsObject(rows[1])

\* the value a column is written with
Stored(v) == IF v = SqlDefault THEN JsNull ELSE v

\* set(attributes) on one row; undefined values are not written
ApplySet(row, attributes) ==
    [c \in DOMAIN row |->
        IF c \in DOMAIN attributes /\ ~IsUndefined(attributes[c])
        THEN Stored(attributes[c]) ELSE row[c]]

\* values(attributes): the row an insert writes
InsertRow(model, attributes) ==
    [c \in Columns(model) |->
        IF c \in DOMAIN attributes /\ ~IsUndefined(attributes[c])
        THEN Stored(attributes[c]) ELSE JsNull]

(***************************************************************************)
(* Options.  scopes.set tells whether `scopes` is given; where.kind is     *)
(* "none", "list" or "function"; query.kind is "none", "append" (the hook  *)
(* adds a filter) or "replace" (the hook returns a query of its own); as   *)
(* is the empty string when not given.                                     *)
(***************************************************************************)
NoScopes == [set |-> FALSE, names |-> {}]
Scopes(names) == [set |-> TRUE, names |-> names]
NoWhere == [kind |-> "none", list |-> <<>>, throws |-> FALSE]
WhereList(list) == [kind |-> "list", list |-> list, throws |-> FALSE]
WhereFn(list) == [kind |-> "function", list |-> list, throws |-> FALSE]
WhereFnThrows == [kind |-> "function", list |-> <<>>, throws |-> TRUE]
NoHook == [kind |-> "none", filter |-> Filter(EmptyString, "=", JsUndefined)]
HookAppend(f) == [kind |-> "append", filter |-> f]
HookReplace(f) == [kind |-> "replace", filter |-> f]

Options(scopes, where, query, as, attributes, onConflict) ==
    [scopes |-> scopes, where |-> where, query |-> query, as |-> as,
     attributes |-> attributes, onConflict |-> onConflict]
LoadOptions(scopes, where, query, as) == Options(scopes, where, query, as, <<>>, "none")
NoOptions == LoadOptions(NoScopes, NoWhere, NoHook, EmptyString)

\* singularize(model, loadOptions)
singularize(model, loadOptions) ==
    IF loadOptions.as # EmptyString THEN loadOptions.as
    ELSE SubSeq(model, 1, Len(model) - 1)

\* the order of the route parameters in the path
ParamOrder == <<user_id, thing_id>>

\* Object.entries(adapter.getRequestParams(c))
ObjectEntries(routeParams) ==
    LET keys == SelectSeq(ParamOrder, LAMBDA k : k \in DOMAIN routeParams)
    IN  [i \in 1..Len(keys) |-> <<keys[i], routeParams[keys[i]]>>]

\* getScopes with the `scopes` option ignored
GetScopesAll(routeParams, loadOptions) == ObjectEntries(routeParams)

\* getScopes(c, loadOptions)
getScopes(routeParams, loadOptions) ==
    IF loadOptions.scopes.set
    THEN SelectSeq(ObjectEntries(routeParams),
                   LAMBDA e : e[1] \in loadOptions.scopes.names)
    ELSE ObjectEntries(routeParams)

\* for (const [paramKey, paramValue] of scopes) query = query.where(paramKey, "=", paramValue)
WhereScopes(query, scopes) ==
    [query EXCEPT !.filters =
        @ \o [i \in 1..Len(scopes) |-> Filter(scopes[i][1], "=", scopes[i][2])]]

\* applyWhere(c, where, query)
applyWhere(where, query) ==
    IF where.kind = "function" /\ where.throws
    THEN [status |-> "HookError", query |-> query, calls |-> <<Ev("where", <<>>)>>]
    ELSE [status |-> "ok",
          query |-> [query EXCEPT !.filters = @ \o where.list],
          calls |-> IF where.kind = "function" THEN <<Ev("where", <<>>)>> ELSE <<>>]

\* if (options.where) query = this.applyWhere(c, options.where, query)
IfWhere(where, query) ==
    IF where.kind = "none" THEN [status |-> "ok", query |-> query, calls |-> <<>>]
    ELSE applyWhere(where, query)

\* loadOptions.query(c, query): what the hook returns
CallHook(hook, query) ==
    IF hook.kind = "append" THEN [query EXCEPT !.filters = Append(@, hook.filter)]
    ELSE [query EXCEPT !.filters = <<hook.filter>>]

\* the outcome of one action
Outcome(status, data, list, calls, executed, hookSaw, cached, attributes, database, store) ==
    [status |-> status, data |-> data, list |-> list, calls |-> calls,
     executed |-> executed, hookSaw |-> hookSaw, cached |-> cached,
     attributes |-> attributes, db |-> database, ctx |-> store]

\* index(model, indexOptions)(c)
index(model, indexOptions, database, store, routeParams) ==
    LET scoped == WhereScopes(SelectFrom(model), getScopes(routeParams, indexOptions))
        w == IfWhere(indexOptions.where, scoped)
        hooked == indexOptions.query.kind # "none"
        query == IF hooked THEN CallHook(indexOptions.query, w.query) ELSE w.query
        calls == <<Ev("getRequestParams", <<>>)>> \o w.calls
    IN  IF w.status # "ok"
        THEN Outcome(w.status, JsUndefined, <<>>, calls, NoQuery, NoQuery, FALSE, NoProps,
                     database, store)
        ELSE Outcome("ok", JsUndefined, Execute(database, query),
                     calls \o (IF hooked THEN <<Ev("query", <<>>)>> ELSE <<>>)
                           \o <<Ev("execute", <<>>)>>,
                     query, IF hooked THEN w.query ELSE NoQuery, FALSE, NoProps,
                     database, store)

\* load(c, model, loadOptions)
load(model, loadOptions, database, store, routeParams) ==
    LET scoped == WhereScopes(SelectFrom(model), getScopes(routeParams, loadOptions))
        w == IfWhere(loadOptions.where, scoped)
        calls == <<Ev("getRequestParams", <<>>)>> \o w.calls
        data == TakeFirst(Execute(database, w.query))
    IN  IF w.status # "ok"
        THEN Outcome(w.status, JsUndefined, <<>>, calls, NoQuery, NoQuery, FALSE, NoProps,
                     database, store)
        ELSE Outcome(IF IsUndefined(data) THEN "NotFoundError" ELSE "ok", data, <<>>,
                     calls \o <<Ev("execute", <<>>)>>, w.query, NoQuery, FALSE, NoProps,
                     database, store)

\* loader that caches whatever the query returned and goes on to the next step
LoaderWithoutNotFound(model, loadOptions, database, store, routeParams) ==
    LET l == load(model, loadOptions, database, store, routeParams)
    IN  IF l.status \notin {"ok", "NotFoundError"} THEN l
        ELSE [l EXCEPT !.ctx = SetProp(store, singularize(model, loadOptions), l.data),
                       !.calls = @ \o <<Ev("set", singularize(model, loadOptions)),
                                        Ev("next", <<>>)>>]

\* loader(model, loadOptions)(c, next)
loader(model, loadOptions, database, store, routeParams) ==
    LET l == load(model, loadOptions, database, store, routeParams)
    IN  IF l.status # "ok" THEN l
        ELSE [l EXCEPT !.ctx = SetProp(store, singularize(model, loadOptions), l.data),
                       !.calls = @ \o <<Ev("set", singularize(model, loadOptions)),
                                        Ev("next", <<>>)>>]

\* show that never looks at the request-scoped store
ShowAlwaysLoads(model, showOptions, database, store, routeParams) ==
    load(model, showOptions, database, store, routeParams)

\* show(model, showOptions)(c)
show(model, showOptions, database, store, routeParams) ==
    LET data == AdapterGet(store, singularize(model, showOptions))
    IN  IF IsUndefined(data)
        THEN load(model, showOptions, database, store, routeParams)
        ELSE Outcome("ok", data, <<>>, <<>>, NoQuery, NoQuery, TRUE, NoProps,
                     database, store)

\* the rows of the table after an update of the rows the query addresses
UpdateRows(database, query, attributes) ==
    [i \in 1..Len(database) |->
        IF MatchesAll(database[i], query) THEN ApplySet(database[i], attributes)
        ELSE database[i]]

\* update that runs its statement before the attributes are resolved
UpdateWritesFirst(model, updateOptions, database, store, routeParams, body, args, rnd) ==
    LET scoped == WhereScopes(UpdateTable(model), getScopes(routeParams, NoOptions))
        w == IfWhere(updateOptions.where, scoped)
        picked == createAttributesPickerFunction(model, updateOptions.attributes, store,
                                                 routeParams, body, args, rnd)
        calls == <<Ev("getRequestParams", <<>>)>> \o w.calls \o <<Ev("execute", <<>>)>>
                 \o picked.calls
        written == UpdateRows(database, w.query, (name :> JsNull))
        data == TakeFirst(Execute(database, w.query))
    IN  Outcome(IF picked.status # "ok" THEN picked.status
                ELSE IF IsUndefined(data) THEN "NotFoundError" ELSE "ok",
                data, <<>>, calls, w.query, NoQuery, FALSE, picked.attributes,
                written, store)

\* update that resolves the attributes before it composes the query
UpdateResolvesFirst(model, updateOptions, database, store, routeParams, body, args, rnd) ==
    LET picked == createAttributesPickerFunction(model, updateOptions.attributes, store,
                                                 routeParams, body, args, rnd)
        scoped == WhereScopes(UpdateTable(model), getScopes(routeParams, NoOptions))
        w == IfWhere(updateOptions.where, scoped)
        composed == picked.calls \o <<Ev("getRequestParams", <<>>)>> \o w.calls
        matched == Execute(database, w.query)
        data == IF Len(matched) = 0 THEN JsUndefined
                ELSE JsObject(ApplySet(matched[1], picked.attributes))
    IN  IF picked.status # "ok"
        THEN Outcome(picked.status, JsUndefined, <<>>, picked.calls, NoQuery, NoQuery, FALSE,
                     NoProps, database, store)
        ELSE IF w.status # "ok"
        THEN Outcome(w.status, JsUndefined, <<>>, composed, NoQuery, NoQuery, FALSE,
                     NoProps, database, store)
        ELSE Outcome(IF IsUndefined(data) THEN "NotFoundError" ELSE "ok", data, <<>>,
                     composed \o <<Ev("execute", <<>>)>>, w.query, NoQuery, FALSE,
                     picked.attributes,
                     UpdateRows(database, w.query, picked.attributes), store)

\* update without the check of the returned row
UpdateNoNotFound(model, updateOptions, database, store, routeParams, body, args, rnd) ==
    LET scoped == WhereScopes(UpdateTable(model), getScopes(routeParams, NoOptions))
        w == IfWhere(updateOptions.where, scoped)
        composed == <<Ev("getRequestParams", <<>>)>> \o w.calls
        picked == createAttributesPickerFunction(model, updateOptions.attributes, store,
                                                 routeParams, body, args, rnd)
        resolved == composed \o <<Ev("getRequestBody", <<>>)>> \o picked.calls
        matched == Execute(database, w.query)
        data == IF Len(matched) = 0 THEN JsUndefined
                ELSE JsObject(ApplySet(matched[1], picked.attributes))
    IN  IF w.status # "ok"
        THEN Outcome(w.status, JsUndefined, <<>>, composed, NoQuery, NoQuery, FALSE,
                     NoProps, database, store)
        ELSE IF picked.status # "ok"
        THEN Outcome(picked.status, JsUndefined, <<>>, resolved, NoQuery, NoQuery, FALSE,
                     NoProps, database, store)
        ELSE Outcome("ok", data, <<>>,
                     resolved \o <<Ev("execute", <<>>)>>, w.query, NoQuery, FALSE,
                     picked.attributes,
                     UpdateRows(database, w.query, picked.attributes), store)

\* update(model, updateOptions)(c, args)
update(model, updateOptions, database, store, routeParams, body, args, rnd) ==
    LET scoped == WhereScopes(UpdateTable(model), getScopes(routeParams, NoOptions))
        w == IfWhere(updateOptions.where, scoped)
        composed == <<Ev("getRequestParams", <<>>)>> \o w.calls
        picked == createAttributesPickerFunction(model, updateOptions.attributes, store,
                                                 routeParams, body, args, rnd)
        resolved == composed \o <<Ev("getRequestBody", <<>>)>> \o picked.calls
        matched == Execute(database, w.query)
        data == IF Len(matched) = 0 THEN JsUndefined
                ELSE JsObject(ApplySet(matched[1], picked.attributes))
    IN  IF w.status # "ok"
        THEN Outcome(w.status, JsUndefined, <<>>, composed, NoQuery, NoQuery, FALSE,
                     NoProps, database, store)
        ELSE IF picked.status # "ok"
        THEN Outcome(picked.status, JsUndefined, <<>>, resolved, NoQuery, NoQuery, FALSE,
                     NoProps, database, store)
        ELSE Outcome(IF IsUndefined(data) THEN "NotFoundError" ELSE "ok", data, <<>>,
                     resolved \o <<Ev("execute", <<>>)>>, w.query, NoQuery, FALSE,
                     picked.attributes,
                     UpdateRows(database, w.query, picked.attributes), store)

\* the position of the row an insert conflicts with on the key column, 0 if none
ConflictAt(database, row) ==
    IF \E i \in 1..Len(database) :
           ~IsNull(row[thing_id]) /\ database[i][thing_id] = row[thing_id]
    THEN CHOOSE i \in 1..Len(database) : database[i][thing_id] = row[thing_id]
    ELSE 0

\* create(model, createOptions)(c, args)
create(model, createOptions, database, store, routeParams, body, args, rnd) ==
    LET picked == createAttributesPickerFunction(model, createOptions.attributes, store,
                                                 routeParams, body, args, rnd)
        calls == <<Ev("getRequestBody", <<>>)>> \o picked.calls
        row == InsertRow(model, picked.attributes)
        at == ConflictAt(database, row)
        insert == [kind |-> "insert", table |-> model, filters |-> <<>>]
        done == calls \o <<Ev("execute", <<>>)>>
    IN  IF picked.status # "ok"
        THEN Outcome(picked.status, JsUndefined, <<>>, calls, NoQuery, NoQuery, FALSE,
                     NoProps, database, store)
        ELSE IF at = 0
        THEN Outcome("ok", JsObject(row), <<>>, done, insert, NoQuery, FALSE,
                     picked.attributes, Append(database, row), store)
        ELSE IF createOptions.onConflict = "doNothing"
        THEN Outcome("ok", JsUndefined, <<>>, done, insert, NoQuery, FALSE,
                     picked.attributes, database, store)
        ELSE IF createOptions.onConflict = "doUpdate"
        THEN Outcome("ok", JsObject(row), <<>>, done, insert, NoQuery, FALSE,
                     picked.attributes, [database EXCEPT ![at] = row], store)
        ELSE Outcome("StoreError", JsUndefined, <<>>, done, insert, NoQuery, FALSE,
                     picked.attributes, database, store)

\* destroy(model, destroyOptions)(c)
destroy(model, destroyOptions, database, store, routeParams) ==
    LET record == AdapterGet(store, singularize(model, destroyOptions))
        cached == ~IsUndefined(record)
        l == IF cached
             THEN Outcome("ok", record, <<>>, <<>>, NoQuery, NoQuery, TRUE, NoProps,
                          database, store)
             ELSE load(model, destroyOptions, database, store, routeParams)
        scoped == WhereScopes(DeleteFrom(model), getScopes(routeParams, NoOptions))
        w == IfWhere(destroyOptions.where, scoped)
        calls == l.calls \o <<Ev("getRequestParams", <<>>)>> \o w.calls
        remaining == SelectSeq(database, LAMBDA row : ~MatchesAll(row, w.query))
        numDeletedRows == Len(database) - Len(remaining)
    IN  IF l.status # "ok" THEN l
        ELSE IF w.status # "ok"
        THEN Outcome(w.status, JsUndefined, <<>>, calls, NoQuery, NoQuery, cached, NoProps,
                     database, store)
        ELSE Outcome(IF numDeletedRows = 0 THEN "NotFoundError" ELSE "ok",
                     JsObject(NoProps), <<>>, calls \o <<Ev("execute", <<>>)>>,
                     w.query, NoQuery, cached, NoProps, remaining, store)

(***************************************************************************)
(* Response shaping.                                                       *)
(***************************************************************************)
\* omit(obj, ...props)
omit(obj, props) == [k \in (DOMAIN obj) \ props |-> obj[k]]

\* pick(obj, ...props)
pick(obj, props) == [k \in props |-> Prop(obj, k)]

NoShaping == [omit |-> {}, omitSet |-> FALSE, pick |-> {}, pickSet |-> FALSE,
              render |-> "none", statusCode |-> 0]
ResponseOptions(omitSet, omitted, pickSet, picked, render, statusCode) ==
    [omit |-> omitted, omitSet |-> omitSet, pick |-> picked, pickSet |-> pickSet,
     render |-> render, statusCode |-> statusCode]

\* the synchronous part of the callback mapped over the rows: omit, then pick
BeforeRender(row, options) ==
    LET omitted == IF options.omitSet THEN omit(row, options.omit) ELSE row
    IN  IF options.pickSet THEN pick(omitted, options.pick) ELSE omitted

\* options.render(result): the value the promise of the render function resolves to
Render(options, record) ==
    IF options.render = "label"
    THEN SetProp(record, extra, JsStr("rendered"))
    ELSE (extra :> Prop(record, name))

\* options?.statusCode ?? 200
StatusCode(options) == IF options.statusCode = 0 THEN 200 ELSE options.statusCode

(***************************************************************************)
(* Bounds and the inputs the actions are tried on.                         *)
(***************************************************************************)
MaxRows == 2

Row(t, u, n) ==
    (thing_id :> JsStr(t)) @@ (user_id :> JsStr(u)) @@ (name :> JsStr(n))
    @@ (active :> JsNull)

UUIDs == {"g1", "g2"}
Now == "2026-01-01T00:00:00.000Z"

InitTables ==
    {<<>>, <<Row("t1", "u1", "Ann"), Row("t2", "u1", "Bob")>>}

\* /users/:user_id/things and /users/:user_id/things/:thing_id
ParamSets ==
    {(user_id :> JsStr("u1")),
     (user_id :> JsStr("u1")) @@ (thing_id :> JsStr("t1"))}

Payloads ==
    {JsObject((name :> JsStr("Bob")) @@ (extra :> JsStr("ignored"))),
     JsObject((extra :> JsStr("ignored")))}

ArgBags == {JsUndefined, JsObject((name :> JsStr("Bob")))}

NameIsBob == <<Filter(name, "=", JsStr("Bob"))>>
UserIsU1 == Filter(user_id, "=", JsStr("u1"))

LoadOptionSets ==
    {LoadOptions(NoScopes, NoWhere, NoHook, EmptyString),
     LoadOptions(NoScopes, WhereList(NameIsBob), NoHook, item),
     LoadOptions(Scopes({user_id}), NoWhere, HookReplace(UserIsU1), EmptyString),
     LoadOptions(Scopes({user_id}), WhereList(NameIsBob), NoHook, item)}

CreateOptionSets ==
    {Options(NoScopes, NoWhere, NoHook, EmptyString,
             <<Tag(thing_id, "uuid"), Tag(user_id, "param"), Tag(name, "payload")>>, "none"),
     Options(NoScopes, NoWhere, NoHook, EmptyString,
             <<Tag(thing_id, "param"), Tag(user_id, "param"), Tag(name, "arg")>>, "none"),
     Options(NoScopes, NoWhere, NoHook, EmptyString,
             <<Tag(thing_id, "param"), Tag(user_id, "param"), Tag(name, "payload")>>,
             "doNothing"),
     Options(NoScopes, NoWhere, NoHook, EmptyString,
             <<Tag(thing_id, "param"), Tag(user_id, "param"),
               Fn(name, JsStr("Bob"), TRUE)>>, "doUpdate"),
     Options(NoScopes, NoWhere, NoHook, EmptyString,
             <<Tag(thing_id, "uuid"), ThrowingFn(name)>>, "none")}

UpdateOptionSets ==
    {Options(NoScopes, NoWhere, NoHook, EmptyString, <<Tag(name, "payload")>>, "none"),
     Options(NoScopes, WhereFn(NameIsBob), NoHook, EmptyString,
             <<Tag(name, "payload")>>, "none"),
     Options(NoScopes, WhereFn(NameIsBob), NoHook, EmptyString,
             <<Fn(name, JsStr("Ann"), TRUE)>>, "none"),
     Options(NoScopes, WhereFnThrows, NoHook, EmptyString,
             <<Fn(name, JsStr("Ann"), FALSE)>>, "none"),
     Options(NoScopes, NoWhere, NoHook, EmptyString, <<Tag(name, "arg")>>, "none"),
     Options(NoScopes, WhereFn(NameIsBob), NoHook, EmptyString,
             <<ThrowingFn(name)>>, "none")}

DestroyOptionSets ==
    {LoadOptions(NoScopes, wh, NoHook, as) :
        wh \in {NoWhere, WhereFn(NameIsBob)}, as \in {EmptyString, item}}

NoRnd == [uuid |-> "", now |-> ""]

NoRes ==
    [action |-> "none", opts |-> NoOptions, args |-> JsUndefined, rnd |-> NoRnd,
     status |-> "none", data |-> JsUndefined, list |-> <<>>, calls |-> <<>>,
     executed |-> NoQuery, hookSaw |-> NoQuery, cached |-> FALSE, attributes |-> NoProps]

\* what an invocation leaves to look at: its inputs and its outcome
Result(action, opts, args, rnd, o) ==
    [action |-> action, opts |-> opts, args |-> args, rnd |-> rnd,
     status |-> o.status, data |-> o.data, list |-> o.list, calls |-> o.calls,
     executed |-> o.executed, hookSaw |-> o.hookSaw, cached |-> o.cached,
     attributes |-> o.attributes]

IdleShape ==
    [pc |-> "idle", options |-> NoShaping, resultData |-> <<>>, metadata |-> 0,
     pending |-> {}, results |-> <<>>, order |-> <<>>, body |-> <<>>, bodyMetadata |-> 0,
     statusCode |-> 0]

(***************************************************************************)
(* The actions of the engine.  A request runs its loader steps and then    *)
(* one handler; a loader step that throws never calls next, so no handler  *)
(* runs after it.  Other requests write to the store in between.           *)
(***************************************************************************)
Init ==
    /\ db \in InitTables
    /\ ctx = NoProps
    /\ params \in ParamSets
    /\ payload \in Payloads
    /\ res = NoRes
    /\ shape = IdleShape

\* a new request arrives: its request-scoped store is empty
NewRequest ==
    /\ res.action # "none"
    /\ ctx' = NoProps
    /\ params' \in ParamSets
    /\ payload' \in Payloads
    /\ res' = NoRes
    /\ UNCHANGED <<db, shape>>

\* the next step of the request has not run yet
Ready == res.action \in {"none", "loader"} /\ res.status \in {"none", "ok"}

Finish(action, opts, args, rnd, o) ==
    /\ res' = Result(action, opts, args, rnd, o)
    /\ db' = o.db
    /\ ctx' = o.ctx
    /\ UNCHANGED <<params, payload, shape>>

LoaderAction ==
    /\ Ready
    /\ \E opts \in LoadOptionSets :
        Finish("loader", opts, JsUndefined, NoRnd, loader(things, opts, db, ctx, params))

ShowAction ==
    /\ Ready
    /\ \E opts \in LoadOptionSets :
        Finish("show", opts, JsUndefined, NoRnd, show(things, opts, db, ctx, params))

CreateAction ==
    /\ Ready
    /\ Len(db) < MaxRows
    /\ \E opts \in CreateOptionSets, args \in ArgBags :
       \E uuid \in UUIDs \ {db[i][thing_id].val : i \in 1..Len(db)} :
           LET rnd == [uuid |-> uuid, now |-> Now]
           IN  Finish("create", opts, args, rnd,
                      create(things, opts, db, ctx, params, payload, args, rnd))

UpdateAction ==
    /\ Ready
    /\ \E opts \in UpdateOptionSets, args \in ArgBags :
        LET rnd == [uuid |-> "", now |-> Now]
        IN  Finish("update", opts, args, rnd,
                   update(things, opts, db, ctx, params, payload, args, rnd))

DestroyAction ==
    /\ Ready
    /\ \E opts \in DestroyOptionSets :
        Finish("destroy", opts, JsUndefined, NoRnd, destroy(things, opts, db, ctx, params))

\* a handler of another request deletes or renames rows while this request is under way
ConcurrentWrite ==
    /\ Ready
    /\ \E other \in ParamSets, renamed \in BOOLEAN :
        db' = IF renamed
              THEN update(things, Options(NoScopes, NoWhere, NoHook, EmptyString,
                                          <<Fn(name, JsStr("Ann"), FALSE)>>, "none"),
                          db, NoProps, other, JsUndefined, JsUndefined, NoRnd).db
              ELSE destroy(things, NoOptions, db, NoProps, other).db
    /\ db' # db
    /\ UNCHANGED <<ctx, params, payload, res, shape>>

Next ==
    \/ NewRequest
    \/ LoaderAction
    \/ ShowAction
    \/ CreateAction
    \/ UpdateAction
    \/ DestroyAction
    \/ ConcurrentWrite

Spec == Init /\ [][Next]_vars

(***************************************************************************)
(* The list action, for the claims about scope and predicate composition.  *)
(***************************************************************************)
IndexOptionSets ==
    {LoadOptions(sc, wh, qh, EmptyString) :
        sc \in {NoScopes, Scopes({user_id}), Scopes({name}), Scopes({})},
        wh \in {NoWhere, WhereList(NameIsBob), WhereFn(NameIsBob), WhereFnThrows},
        qh \in {NoHook, HookAppend(Filter(name, "!=", JsStr("Ann"))),
                HookReplace(UserIsU1)}}

IndexAction ==
    /\ Ready
    /\ \E opts \in IndexOptionSets :
        Finish("index", opts, JsUndefined, NoRnd, index(things, opts, db, ctx, params))

NextRead ==
    \/ NewRequest
    \/ IndexAction
    \/ LoaderAction
    \/ ShowAction

SpecRead == Init /\ [][NextRead]_vars

(***************************************************************************)
(* The attribute resolver on its own: the inputs are drawn in the initial  *)
(* state and the function returned by createAttributesPickerFunction is    *)
(* applied to them.                                                        *)
(***************************************************************************)
ResolveKeys == {name, active}

FnReturns ==
    {JsTrue, JsFalse, JsStr("s"), JsNum("7"), JsObject(NoProps), JsNull, JsUndefined}

Sources(key) ==
    {Tag(key, t) : t \in {"null", "default", "uuid", "get", "arg", "payload", "param",
                          "inserted_at", "updated_at"}}
    \cup {Fn(key, ret, async) : ret \in FnReturns, async \in BOOLEAN}
    \cup {ThrowingFn(key)}

ResolvePickers ==
    UNION {{<<a>> : a \in Sources(k)} : k \in ResolveKeys}
    \cup UNION {{<<a, b>> : a \in Sources(kl[1]), b \in Sources(kl[2])} :
                    kl \in {pair \in ResolveKeys \X ResolveKeys : pair[1] # pair[2]}}

ResolvePayloads ==
    {JsObject((name :> JsStr("Ann")) @@ (active :> JsTrue) @@ (extra :> JsStr("ignored"))),
     JsObject((name :> JsStr("Ann")) @@ (active :> JsFalse)),
     JsObject((name :> JsStr("Ann")) @@ (extra :> JsTrue)),
     JsObject((name :> JsNum("7")) @@ (active :> JsTrue))}

ResolveStores == {NoProps, (active :> JsTrue) @@ (name :> JsFalse)}

ResolveArgBags == {JsUndefined, JsObject((active :> JsFalse) @@ (name :> JsStr("arg")))}

InitResolve ==
    /\ db = <<>>
    /\ ctx \in ResolveStores
    /\ params \in ParamSets \cup {(name :> JsStr("p"))}
    /\ payload \in ResolvePayloads
    /\ res = NoRes
    /\ shape = IdleShape

ResolveAction ==
    /\ res.action = "none"
    /\ \E picker \in ResolvePickers, args \in ResolveArgBags, uuid \in UUIDs :
        LET rnd == [uuid |-> uuid, now |-> Now]
            picked == createAttributesPickerFunction(things, picker, ctx, params, payload,
                                                     args, rnd)
        IN  res' = Result("resolve",
                          Options(NoScopes, NoWhere, NoHook, EmptyString, picker, "none"),
                          args, rnd,
                          Outcome(picked.status, JsUndefined, <<>>, picked.calls, NoQuery,
                                  NoQuery, FALSE, picked.attributes, db, ctx))
    /\ UNCHANGED <<db, ctx, params, payload, shape>>

NextResolve == ResolveAction

SpecResolve == InitResolve /\ [][NextResolve]_vars

(***************************************************************************)
(* collectionResponse(index(model), options): the callback mapped over the *)
(* rows runs up to its await for every row, the render promises settle in  *)
(* any order, and the response is sent once Promise.all has them all.      *)
(***************************************************************************)
MaxLen == 3

Ids == <<"t1", "t2", "t3", "t4", "t5">>
Names == <<"Ann", "Bob", "Cy", "Di", "Ed">>

ShapeTables ==
    {[i \in 1..n |-> Row(Ids[i], "u1", Names[i])] : n \in 0..MaxLen}

ShapeOptionSets ==
    {ResponseOptions(os, {name}, ps, pk, rd, sc) :
        os \in BOOLEAN, ps \in BOOLEAN, pk \in {{thing_id, name}, {extra}},
        rd \in {"none", "label", "nameOnly"}, sc \in {0, 201}}

\* metadata: { total_count: 0 }
IndexMetadata == [total_count |-> 0]

\* the results of Promise.all filled in the order the promises settle
SettleInOrder(results, i, value) == (Cardinality(DOMAIN results) + 1 :> value) @@ results

\* Promise.all keeps each value at the position of its promise
Settle(results, i, value) == (i :> value) @@ results

InitShape ==
    /\ db \in ShapeTables
    /\ ctx = NoProps
    /\ params = (user_id :> JsStr("u1"))
    /\ payload = JsUndefined
    /\ res = NoRes
    /\ shape = IdleShape

\* dataFn(c), then the synchronous part of the map
CollectionStart ==
    /\ shape.pc = "idle"
    /\ \E options \in ShapeOptionSets :
        LET listed == index(things, NoOptions, db, ctx, params)
            n == Len(listed.list)
        IN  shape' = [pc |-> "awaiting", options |-> options,
                      resultData |-> listed.list, metadata |-> IndexMetadata.total_count,
                      pending |-> IF options.render = "none" THEN {} ELSE 1..n,
                      results |-> IF options.render = "none"
                                  THEN [i \in 1..n |-> BeforeRender(listed.list[i], options)]
                                  ELSE <<>>,
                      order |-> <<>>, body |-> <<>>, bodyMetadata |-> 0, statusCode |-> 0]
    /\ UNCHANGED <<db, ctx, params, payload, res>>

\* the promise of one render call settles
RenderSettles ==
    /\ shape.pc = "awaiting"
    /\ \E i \in shape.pending :
        shape' = [shape EXCEPT
                    !.pending = @ \ {i},
                    !.order = Append(@, i),
                    !.results = Settle(@, i, Render(shape.options,
                                    BeforeRender(shape.resultData[i], shape.options)))]
    /\ UNCHANGED <<db, ctx, params, payload, res>>

\* Promise.all is fulfilled: adapter.response(c, { data, metadata }, statusCode)
CollectionRespond ==
    /\ shape.pc = "awaiting"
    /\ shape.pending = {}
    /\ shape' = [shape EXCEPT !.pc = "done",
                              !.body = [i \in 1..Len(shape.resultData) |-> shape.results[i]],
                              !.bodyMetadata = shape.metadata,
                              !.statusCode = StatusCode(shape.options)]
    /\ UNCHANGED <<db, ctx, params, payload, res>>

NextShape ==
    \/ CollectionStart
    \/ RenderSettles
    \/ CollectionRespond

SpecShape == InitShape /\ [][NextShape]_vars

(***************************************************************************)
(* The properties.                                                         *)
(***************************************************************************)
\* the step just taken is the handler `action` of the request under way
HandlerStep(action) == Ready /\ res'.action = action

Events(calls, kinds) == {i \in 1..Len(calls) : calls[i].ev \in kinds}

\* the payload with only the fields whose declared source is `payload`
DeclaredPayload(picker, body) ==
    LET declared == {picker[i].key : i \in {j \in 1..Len(picker) : picker[j].tag = "payload"}}
    IN  [body EXCEPT !.obj = [k \in (DOMAIN body.obj) \cap declared |-> body.obj[k]]]

\* C1: mass-assignment protection.  A resolved record holds only fields the
\* attribute specification declares, and it is the record the resolver returns
\* for the payload stripped of every field not declared with source `payload`:
\* no such field is ever copied from the payload.
C1_MassAssignment ==
    (res.action = "resolve" /\ res.status = "ok") =>
        /\ DOMAIN res.attributes \subseteq PickerKeys(res.opts.attributes)
        /\ res.attributes =
              createAttributesPickerFunction(things, res.opts.attributes, ctx, params,
                  DeclaredPayload(res.opts.attributes, payload), res.args, res.rnd).attributes

\* a payload with an undeclared field and with a field declared with another
\* source has been resolved next to a payload-sourced field
C1_Witness ==
    /\ res.action = "resolve"
    /\ res.status = "ok"
    /\ extra \in DOMAIN payload.obj
    /\ active \in DOMAIN payload.obj
    /\ PickerKeys(res.opts.attributes) = {name, active}
    /\ SourceOf(res.opts.attributes, name).tag = "payload"
    /\ SourceOf(res.opts.attributes, active).tag = "get"
    /\ res.attributes[name] = payload.obj[name]

\* the value a field's source produces before coercion, for the sources that
\* can produce a boolean
RawValue(entry) ==
    CASE entry.tag = "payload" -> Prop(payload.obj, entry.key)
      [] entry.tag = "get" -> Prop(ctx, entry.key)
      [] entry.tag = "arg" -> Prop(res.args.obj, entry.key)
      [] entry.tag = "function" -> entry.fn.ret
      [] OTHER -> JsUndefined

\* C7: boolean coercion.  No field of a record returned by the resolver holds
\* a native boolean; a field whose source produced true holds "1" and one
\* whose source produced false holds "0", for payload, contextual, argument
\* and custom-function sources, returned directly or awaited.
C7_BooleanCoercion ==
    (res.action = "resolve" /\ res.status = "ok") =>
        /\ \A k \in DOMAIN res.attributes : res.attributes[k].type # "boolean"
        /\ \A i \in 1..Len(res.opts.attributes) :
              LET entry == res.opts.attributes[i]
              IN  /\ RawValue(entry) = JsTrue => res.attributes[entry.key] = JsStr("1")
                  /\ RawValue(entry) = JsFalse => res.attributes[entry.key] = JsStr("0")

\* a payload true and an awaited custom-function false have both been coerced
C7_Witness ==
    /\ res.action = "resolve"
    /\ res.status = "ok"
    /\ PickerKeys(res.opts.attributes) = {name, active}
    /\ SourceOf(res.opts.attributes, active).tag = "payload"
    /\ payload.obj[active] = JsTrue
    /\ res.attributes[active] = JsStr("1")
    /\ SourceOf(res.opts.attributes, name) = Fn(name, JsFalse, TRUE)
    /\ res.attributes[name] = JsStr("0")

\* resolution has a cause of failure the claims allow: the payload fails
\* validation, an `arg` field is declared without an argument bag, or a custom
\* resolver throws
AllowedFailure(picker, body, args) ==
    \/ ~SchemaParse(things, {picker[i].key : i \in {j \in 1..Len(picker) :
                                                       picker[j].tag = "payload"}}, body).ok
    \/ \E i \in 1..Len(picker) : picker[i].tag = "arg" /\ IsUndefined(args)
    \/ \E i \in 1..Len(picker) : picker[i].tag = "function" /\ picker[i].fn.throws

\* C10: a field whose source is a custom resolver function holds the value the
\* function returned, or the value its awaitable resolves to, up to boolean
\* coercion, for every value it can return (null and undefined included), and
\* resolution fails only if the payload is invalid, an argument bag is missing
\* or a resolver itself fails.
C10_CustomResolverValue ==
    res.action = "resolve" =>
        /\ res.status # "ok" => AllowedFailure(res.opts.attributes, payload, res.args)
        /\ res.status = "ok" =>
              \A i \in 1..Len(res.opts.attributes) :
                  LET entry == res.opts.attributes[i]
                  IN  entry.tag = "function" =>
                          res.attributes[entry.key] = Coerce(entry.fn.ret)

thing == <<"t", "h", "i", "n", "g">>

\* `param = value` for every route parameter, in path order
AllParamFilters(routeParams) ==
    LET keys == SelectSeq(ParamOrder, LAMBDA k : k \in DOMAIN routeParams)
    IN  [i \in 1..Len(keys) |-> Filter(keys[i], "=", routeParams[keys[i]])]

\* `param = value` for the route parameters that `scopes` lets through
ExpectedScopeFilters(routeParams, scopes) ==
    LET keys == SelectSeq(ParamOrder,
                          LAMBDA k : k \in DOMAIN routeParams
                                     /\ (scopes.set => k \in scopes.names))
    IN  [i \in 1..Len(keys) |-> Filter(keys[i], "=", routeParams[keys[i]])]

MatchingRows(database, filters) ==
    SelectSeq(database, LAMBDA row : \A j \in 1..Len(filters) : Matches(row, filters[j]))

\* the key fetch and delete look a cached record up under
ExpectedKey(opts) == IF opts.as # EmptyString THEN opts.as ELSE thing

\* the record a scoped load returns, undefined if nothing matches
ScopedFirst(database, routeParams, opts) ==
    LET rows == MatchingRows(database,
                    ExpectedScopeFilters(routeParams, opts.scopes) \o opts.where.list)
    IN  IF Len(rows) = 0 THEN JsUndefined ELSE JsObject(rows[1])

ResolutionFailures == {"ValidationError", "TypeError", "ResolverError"}

\* C2: an update whose statement runs on a scope (route-parameter filters and
\* `where`) matching zero rows raises NotFoundError, and no update succeeds on
\* such a scope; a delete on a scope matching zero rows raises NotFoundError,
\* whether no record is cached (the load finds nothing) or one is cached (the
\* delete affects zero rows); create never raises NotFoundError.
C2_NotFound ==
    [][/\ HandlerStep("update") =>
            LET zero == Len(MatchingRows(db, AllParamFilters(params)
                                             \o res'.opts.where.list)) = 0
            IN  /\ zero => res'.status # "ok"
                /\ (zero /\ Events(res'.calls, {"execute"}) # {})
                      => res'.status = "NotFoundError"
       /\ HandlerStep("destroy") =>
            LET zero == Len(MatchingRows(db, AllParamFilters(params)
                                             \o res'.opts.where.list)) = 0
            IN  (zero /\ res'.status # "HookError") => res'.status = "NotFoundError"
       /\ HandlerStep("create") => res'.status # "NotFoundError"
      ]_vars

\* an update with a `where` function found rows in the table but none in its scope
C2_Witness ==
    /\ res.action = "update"
    /\ res.status = "NotFoundError"
    /\ res.opts.where.kind = "function"
    /\ Len(db) > 0

\* C3: fetch returns the record cached under the singular key (`as`, else the
\* model name without its last character) when there is one and otherwise the
\* result of a scoped load (NotFoundError when nothing matches); delete looks
\* the cached record up the same way and loads only when there is none; right
\* after a successful loader step, fetch with the same options yields the data
\* of a fetch with an empty request store.
C3_CachedFetch ==
    [][/\ HandlerStep("show") =>
            LET record == Prop(ctx, ExpectedKey(res'.opts))
                first == ScopedFirst(db, params, res'.opts)
            IN  IF ~IsUndefined(record)
                THEN /\ res'.status = "ok"
                     /\ res'.data = record
                     /\ Events(res'.calls, {"execute"}) = {}
                ELSE IF IsUndefined(first)
                THEN res'.status = "NotFoundError"
                ELSE res'.status = "ok" /\ res'.data = first
       /\ HandlerStep("destroy") =>
            LET record == Prop(ctx, ExpectedKey(res'.opts))
                first == ScopedFirst(db, params, res'.opts)
            IN  IF ~IsUndefined(record)
                THEN res'.cached /\ Cardinality(Events(res'.calls, {"execute"})) <= 1
                ELSE /\ ~res'.cached
                     /\ IsUndefined(first) => res'.status = "NotFoundError"
                     /\ ~IsUndefined(first) =>
                            Cardinality(Events(res'.calls, {"execute"})) = 2
       /\ (Ready /\ res'.action = "loader" /\ res'.status = "ok" /\ db' = db) =>
            LET after == show(things, res'.opts, db', ctx', params')
                direct == show(things, res'.opts, db', NoProps, params')
            IN  after.status = direct.status /\ after.data = direct.data
      ]_vars

\* fetch returned a cached record that a scoped load would not return now
C3_Witness ==
    /\ res.action = "show"
    /\ res.cached
    /\ res.status = "ok"
    /\ res.data # ScopedFirst(db, params, res.opts)

\* C6: when attribute resolution fails in create or update (invalid payload,
\* throwing custom resolver, `arg` field without an argument bag) the action
\* fails with that error, no insert or update is executed and the store is
\* unchanged.
C6_NoWriteOnFailedResolution ==
    [][(/\ HandlerStep("create") \/ HandlerStep("update")
        /\ \/ AllowedFailure(res'.opts.attributes, payload, res'.args)
           \/ res'.status \in ResolutionFailures)
       => /\ res'.status \in ResolutionFailures \cup {"HookError"}
          /\ Events(res'.calls, {"execute"}) = {}
          /\ db' = db
      ]_vars

\* an update whose payload failed validation ran on a scope that has rows
C6_Witness ==
    /\ res.action = "update"
    /\ res.status = "ValidationError"
    /\ Len(MatchingRows(db, AllParamFilters(params) \o res.opts.where.list)) > 0

ComposerEvents(calls) == Events(calls, {"getRequestParams", "where", "query"})
ResolutionEvents(calls) == Events(calls, {"parse", "resolver"})

\* C9 as stated: in create and update, attribute resolution (payload
\* validation, custom resolvers) completes before scope and predicate
\* composition begins (route-parameter reading, `where` function), which
\* completes before the data-access call.
C9_ResolverBeforeComposer ==
    res.action \in {"create", "update"} =>
        /\ \A i \in ResolutionEvents(res.calls), j \in ComposerEvents(res.calls) : i < j
        /\ \A i \in ResolutionEvents(res.calls) \cup ComposerEvents(res.calls),
              j \in Events(res.calls, {"execute"}) : i < j

\* C9 amended: in update, scope and predicate composition (route-parameter
\* reading, `where` function) completes before attribute resolution begins; in
\* create and update, resolution and composition complete before the single
\* data-access call.
C9_ComposerBeforeResolver ==
    /\ res.action = "update" =>
          \A i \in ComposerEvents(res.calls), j \in ResolutionEvents(res.calls) : i < j
    /\ res.action \in {"create", "update"} =>
          /\ Cardinality(Events(res.calls, {"execute"})) <= 1
          /\ \A i \in ResolutionEvents(res.calls) \cup ComposerEvents(res.calls),
                j \in Events(res.calls, {"execute"}) : i < j

\* an update with a `where` function and a custom resolver ran its statement
C9_Witness ==
    /\ res.action = "update"
    /\ res.status = "ok"
    /\ Events(res.calls, {"where"}) # {}
    /\ Events(res.calls, {"resolver"}) # {}
    /\ Events(res.calls, {"execute"}) # {}

\* the query an action composed from its load options, before any hook
Composed(r) ==
    IF Events(r.calls, {"query"}) # {} THEN r.hookSaw ELSE r.executed

\* C4: for list and for the scoped load, the equality filters applied are one
\* `param = value` per route parameter when `scopes` is not set, and exactly
\* those of the route parameters named in `scopes` when it is set; they are
\* followed by the `where` filters.
C4_ScopeDerivation ==
    (res.action \in {"index", "show", "loader"} /\ Events(res.calls, {"execute"}) # {}) =>
        /\ Composed(res).filters =
              ExpectedScopeFilters(params, res.opts.scopes) \o res.opts.where.list
        /\ \A k \in DOMAIN params :
              (res.opts.scopes.set /\ k \notin res.opts.scopes.names) =>
                  \A i \in 1..Len(Composed(res).filters) : Composed(res).filters[i].lhs # k

\* a list with scopes: ["user_id"] ran on a route that also has thing_id
C4_Witness ==
    /\ res.action = "index"
    /\ res.status = "ok"
    /\ res.opts.scopes = Scopes({user_id})
    /\ thing_id \in DOMAIN params
    /\ Len(res.executed.filters) = 1

\* C5: whenever the load options have a `query` hook, list and the scoped load
\* invoke it with the query built from all scope and `where` filters, and the
\* query executed is what the hook returned.
C5_QueryHookLast ==
    (/\ res.action \in {"index", "show", "loader"}
     /\ res.opts.query.kind # "none"
     /\ Events(res.calls, {"execute"}) # {}) =>
        /\ Events(res.calls, {"query"}) # {}
        /\ res.hookSaw.filters =
              ExpectedScopeFilters(params, res.opts.scopes) \o res.opts.where.list
        /\ res.executed = CallHook(res.opts.query, res.hookSaw)
        /\ \A i \in Events(res.calls, {"getRequestParams", "where"}),
              j \in Events(res.calls, {"query"}) : i < j
        /\ \A i \in Events(res.calls, {"query"}),
              j \in Events(res.calls, {"execute"}) : i < j

\* the shaping of one record: omit, then pick, then render
Shaped(row, options) ==
    LET omitted == IF options.omitSet THEN [k \in (DOMAIN row) \ options.omit |-> row[k]]
                   ELSE row
        picked == IF options.pickSet THEN [k \in options.pick |-> Prop(omitted, k)]
                  ELSE omitted
    IN  CASE options.render = "none" -> picked
          [] options.render = "label" -> SetProp(picked, extra, JsStr("rendered"))
          [] OTHER -> (extra :> Prop(picked, name))

\* C8: the data of a shaped collection has the length of the input and its
\* i-th element is the i-th input record shaped (omit, pick, awaited render),
\* in whatever order the render calls complete; the metadata passes through.
C8_CollectionOrder ==
    shape.pc = "done" =>
        /\ Len(shape.body) = Len(shape.resultData)
        /\ shape.resultData = db
        /\ \A i \in 1..Len(shape.body) : shape.body[i] = Shaped(db[i], shape.options)
        /\ shape.bodyMetadata = IndexMetadata.total_count

\* a collection was answered after its render calls completed out of order
C8_Witness ==
    /\ shape.pc = "done"
    /\ Len(shape.order) >= 2
    /\ shape.order[1] > shape.order[2]
    /\ shape.options.omitSet

\* the step just taken is a loader step of the request under way
LoaderStep == Ready /\ res'.action = "loader" /\ db' = db

\* C11: a loader step writes the request-scoped store and calls next only
\* after its scoped load succeeded, and what it writes under the singular key
\* is the record the store returned for its scopes and `where` filters; when
\* the load matches nothing it raises NotFoundError, writes nothing to the
\* store (a key not set before stays unset) and never calls next.  No other
\* step of a request writes the store, so a cached record is always one a
\* loader step of the request got from the store.
C11_LoaderStep ==
    [][/\ LoaderStep =>
            LET key == ExpectedKey(res'.opts)
                first == ScopedFirst(db, params, res'.opts)
                calls == res'.calls
            IN  /\ res'.status = (IF IsUndefined(first) THEN "NotFoundError" ELSE "ok")
                /\ res'.status = "ok" =>
                      /\ ctx' = SetProp(ctx, key, first)
                      /\ Cardinality(Events(calls, {"set"})) = 1
                      /\ Cardinality(Events(calls, {"next"})) = 1
                      /\ \A i \in Events(calls, {"execute"}), j \in Events(calls, {"set"}),
                            k \in Events(calls, {"next"}) : i < j /\ j < k
                /\ res'.status # "ok" =>
                      /\ ctx' = ctx
                      /\ key \notin DOMAIN ctx => key \notin DOMAIN ctx'
                      /\ Events(calls, {"set", "next"}) = {}
       /\ ctx' # ctx =>
            \/ res'.action = "none" /\ ctx' = NoProps
            \/ LoaderStep /\ res'.status = "ok"
       /\ \A key \in DOMAIN ctx' :
            \E opts \in LoadOptionSets :
                /\ ExpectedKey(opts) = key
                /\ ctx'[key].type = "object"
                /\ Len(MatchingRows(<<ctx'[key].obj>>,
                                    ExpectedScopeFilters(params', opts.scopes)
                                    \o opts.where.list)) = 1
      ]_vars

\* a loader step found nothing after an earlier loader step of the request
\* had cached a record under another key
C11_Witness ==
    /\ res.action = "loader"
    /\ res.status = "NotFoundError"
    /\ DOMAIN ctx # {}
    /\ ExpectedKey(res.opts) \notin DOMAIN ctx
    /\ Events(res.calls, {"next"}) = {}

====
